---- MODULE Spec2Model ----
(***************************************************************************)
(* Model of the network bridge in network-new/src/net.rs: the facade       *)
(* (send_message, broadcast_message, is_connected, identify), the two      *)
(* locks of NetworkService, the background poll/dispatch loop              *)
(* (run_network + handle_event), the outbound pump (send_network_message)  *)
(* and the shutdown select of spawn_network, over an abstract transport.   *)
(***************************************************************************)
EXTENDS Integers, Sequences, FiniteSets, TLC

\* ------------------------------------------------------------------ bounds
MaxActs == 3    \* what the outside does to this node in a run: requests made
                \* of it (send_message, broadcast_message, is_connected and
                \* identify calls, outbound requests enqueued) and what the
                \* transport reports on its own account (connections opened
                \* and closed, messages from peers, poll failures); the
                \* echoes of this node's own sends are not counted

\* ------------------------------------------------------------ value spaces
LocalPeer == "p0"                  \* this node's own peer id
GoodPeers == {"p1"}                \* peer ids with an account address
BadPeer   == "px"                  \* a peer id whose bytes are no address
AllPeers  == GoodPeers \cup {BadPeer}
GoodAddrs == {"a1"}
BadAddr   == "ax"                  \* an address that is no peer id
AllAddrs  == GoodAddrs \cup {BadAddr}
OwnDatas  == {"d0"}                \* payload bytes this node sends
OutDatas  == {"d0", "d3"}          \* bytes the upper layer asks to send
Callers   == {"t1"}                \* threads holding a NetworkService clone
Threads   == Callers \cup {"bg"}     \* "bg": the "network" thread
Locks     == {"srv", "acks"}       \* the two Arc<Mutex<..>> of NetworkService
IdentityError == "IdentityError"
Origins   == {"send_message", "broadcast", "ack", "pump"}

\* ------------------------------------------------------ identity translator
convert_peer_id_to_account_address(p) ==
    IF p = "p1" THEN "a1" ELSE IF p = "p0" THEN "a0" ELSE IdentityError

convert_account_address_to_peer_id(a) ==
    IF a = "a1" THEN "p1" ELSE IdentityError

\* --------------------------------------------------------- message protocol
Payload(id, data) == [kind |-> "Payload", id |-> id, data |-> data]
ACK(id)           == [kind |-> "ACK", id |-> id]
DecodeError       == [kind |-> "DecodeError"]

\* Message::into_bytes: tag, correlation id, then the data for a Payload
into_bytes(m) ==
    IF m.kind = "Payload" THEN <<"P", m.id, m.data>> ELSE <<"A", m.id>>

\* Message::from_bytes: rejects frames that are not one of the two shapes
from_bytes(b) ==
    IF Len(b) = 3 /\ b[1] = "P" THEN Payload(b[2], b[3])
    ELSE IF Len(b) = 2 /\ b[1] = "A" THEN ACK(b[2])
    ELSE DecodeError

Garbage == <<"?">>

\* the ids Message::new_payload may return when `counter - 1` different ids
\* have been handed out: never 0, and either an id not handed out yet or any
\* of the earlier ones; nothing in net.rs checks the id against the table
\* or against the calls still outstanding
new_payload_id(counter) == 1..counter

\* Message::new_message: a fire-and-forget payload
new_message(data) == Payload(0, data)

\* the outside may still act
CanAct(ops, envs) == ops + envs < MaxActs

\* ------------------------------------------------------------------- state
VARIABLES
    acks,        \* Acknowledgment Table: correlation id -> send_message call
    calls,       \* send_message calls: id, peer, state of the returned
                 \* future, whether the caller has dropped it, and (history)
                 \* whether the call has returned, how often its sender
                 \* fired, the shutdown signal at its return
    bcasts,      \* broadcast_message calls: id, bytes, snapshot, peers left,
                 \* and (history) the peers that connected during the call
    pc,          \* per caller thread: "idle", "insert", "snap", "bcast" or
                 \* "panicked"
    cur,         \* per caller thread: index of the call it is executing
    nextId,      \* the least correlation id not handed out yet
    connected,   \* transport: peers with an open connection
    events,      \* transport: events ready to be returned by poll
    sent,        \* transport: raw sends issued through send_custom_message,
                 \* in order, kept per call site that issued them
    replied,     \* the raw sends the remote dispatcher has handled
    net_rx,      \* inbound queue of NetworkMessage (fed through _tx)
    event_rx,    \* queue of PeerEvent (fed through event_tx)
    out_rx,      \* outbound queue (_rx) drained by the pump
    delivered,   \* history of events handed to handle_event
    pollTask,    \* "running" or "stopped"
    pumpTask,    \* "running" or "stopped"
    bgExit,      \* "none", "shutdown" or "panic"
    close_tx,    \* shutdown sender: "armed", "fired" or "dropped"
    query,       \* last is_connected / identify call: ordinal, argument,
                 \* outcome ("true", "false", an address, or "panic")
    held,        \* per thread: the locks it holds between two steps
    stalled,     \* the poll loop returned Pending after a transport error
                 \* and the transport holds no waker for it
    bgpc,        \* network thread: "poll" (between two tasks' turns),
                 \* "dispatch" (an event taken, handle_event to run), "ack"
                 \* (about to lock the transport for the ACK), "send" (a
                 \* request taken, about to lock the transport), "isopen"
                 \* (raw send done, about to lock the transport again for
                 \* is_open) or "gone"
    event,       \* the event the poll loop has in hand
    message,     \* the request the drain loop has in hand
    errAt,       \* (history) how many events the transport had made ready
                 \* when its poll last failed, -1 if it never failed
    envCount,    \* events injected so far
    opCount      \* requests made so far

vars == <<acks, calls, bcasts, pc, cur, nextId, connected, events, sent,
          replied, net_rx, event_rx, out_rx, delivered, pollTask, pumpTask,
          bgExit, close_tx, query, held, stalled, bgpc, event, message,
          errAt, envCount, opCount>>

callerVars == <<calls, bcasts, pc, cur, nextId, query, held>>
queueVars  == <<net_rx, event_rx, out_rx>>
handVars   == <<bgpc, event, message>>
bgVars     == <<pollTask, pumpTask, bgExit, stalled, errAt, handVars>>

NoEvent   == [type |-> "none", peer_id |-> "", message |-> <<>>, cause |-> ""]
NoMessage == [peer_id |-> "", data |-> ""]

Init ==
    /\ acks = <<>>
    /\ calls = <<>>
    /\ bcasts = <<>>
    /\ pc = [t \in Callers |-> "idle"]
    /\ cur = [t \in Callers |-> 0]
    /\ nextId = 1
    /\ connected = {}
    /\ events = <<>>
    /\ sent = [o \in Origins |-> <<>>]
    /\ replied = {}
    /\ net_rx = <<>>
    /\ event_rx = <<>>
    /\ out_rx = <<>>
    /\ delivered = <<>>
    /\ pollTask = "running"
    /\ pumpTask = "running"
    /\ bgExit = "none"
    /\ close_tx = "armed"
    /\ query = [n |-> 0, arg |-> "", result |-> "none"]
    /\ held = [th \in Threads |-> {}]
    /\ stalled = FALSE
    /\ bgpc = "poll"
    /\ event = NoEvent
    /\ message = NoMessage
    /\ errAt = -1
    /\ envCount = 0
    /\ opCount = 0

\* ----------------------------------------------------------------- helpers
\* parking_lot::Mutex::lock() returns only when no thread holds the lock
LockFree(l) == \A th \in Threads : l \notin held[th]

\* a raw send; open records whether the transport had the peer open, which
\* decides whether the bytes leave this node
RawSend(peer, bytes, ref, open) ==
    [peer |-> peer, bytes |-> bytes, ref |-> ref, open |-> open]

\* Libp2pService::send_custom_message issued from call site o
SendCustomMessage(log, o, peer, bytes, ref) ==
    [log EXCEPT ![o] = Append(@, RawSend(peer, bytes, ref, peer \in connected))]

CustomMessage(peer, bytes, cause) ==
    [type |-> "CustomMessage", peer_id |-> peer, message |-> bytes,
     cause |-> cause]
CustomProtocolOpen(peer) ==
    [type |-> "CustomProtocolOpen", peer_id |-> peer, message |-> <<>>,
     cause |-> "env"]
CustomProtocolClosed(peer) ==
    [type |-> "CustomProtocolClosed", peer_id |-> peer, message |-> <<>>,
     cause |-> "env"]
Clogged ==
    [type |-> "Clogged", peer_id |-> "", message |-> <<>>, cause |-> "env"]

NetworkMessage(address, data) == [peer_id |-> address, data |-> data]
Open(addr)  == [kind |-> "Open", addr |-> addr]
Close(addr) == [kind |-> "Close", addr |-> addr]

\* HashMap::insert(message_id, tx)
AcksInsert(table, id, h) ==
    [i \in (DOMAIN table) \cup {id} |-> IF i = id THEN h ELSE table[i]]

\* variant: the removal empties the table
AcksRemoveAll(table, id) == <<>>

\* variant: the entry is looked up but left in the table
AcksRemoveNothing(table, id) == table

\* HashMap::remove(&message_id)
AcksRemove(table, id) ==
    [i \in (DOMAIN table) \ {id} |-> table[i]]

Range(f) == {f[i] : i \in DOMAIN f}

\* a Sender that leaves the table without having fired is dropped, which
\* resolves its receiver to Err(Canceled)
DropSenders(cs, old, new) ==
    [h \in DOMAIN cs |->
        IF h \in Range(old) /\ h \notin Range(new) /\ cs[h].st = "pending"
        THEN [cs[h] EXCEPT !.st = "canceled"] ELSE cs[h]]

\* variant: every Payload is acknowledged
NeedsAckAlways(id) == id = id

\* payload.id != 0
NeedsAck(id) == id # 0


\* variant: the message jumps the queue
InboundPushFront(q, m) == <<m>> \o q

\* _tx.unbounded_send(user_msg)
InboundPush(q, m) == Append(q, m)

\* variant: the Closed arm builds the Open event as well
PeerEventOfOpen(type, addr) == Open(addr)

\* PeerEvent built by the CustomProtocolOpen / CustomProtocolClosed arms
PeerEventOf(type, addr) ==
    IF type = "CustomProtocolOpen" THEN Open(addr) ELSE Close(addr)

\* variant: only the poll loop ends, the drain loop keeps running
ExitedTasksPollOnly == [poll |-> "stopped", pump |-> "running"]

\* select_all in spawn_network completes: block_on returns and the remaining
\* futures (poll loop and drain loop alike) are dropped
ExitedTasks == [poll |-> "stopped", pump |-> "stopped"]

\* ------------------------------------------------- facade: send_message
\* lines 292-299: allocate the id, translate the address (the expect panics
\* the calling thread when it is no peer id), lock the transport, raw send
SendMessageSend(t, addr, data) ==
    /\ pc[t] = "idle"
    /\ CanAct(opCount, envCount)
    /\ \E id \in new_payload_id(nextId) :
          LET peer == convert_account_address_to_peer_id(addr)
              h    == Len(calls) + 1
          IN /\ IF peer = IdentityError
                THEN /\ pc' = [pc EXCEPT ![t] = "panicked"]
                     /\ UNCHANGED <<sent, calls, cur>>
                ELSE /\ LockFree("srv")
                     /\ sent' = SendCustomMessage(sent, "send_message", peer,
                                     into_bytes(Payload(id, data)), h)
                     /\ calls' = Append(calls,
                                     [id |-> id, peer |-> peer,
                                      st |-> "pending", returned |-> FALSE,
                                      fired |-> 0, retWhile |-> "none",
                                      dropped |-> FALSE])
                     /\ cur' = [cur EXCEPT ![t] = h]
                     /\ pc' = [pc EXCEPT ![t] = "insert"]
             /\ nextId' = IF id = nextId THEN nextId + 1 ELSE nextId
    /\ opCount' = opCount + 1
    /\ UNCHANGED <<acks, bcasts, connected, events, replied, queueVars,
                   delivered, bgVars, close_tx, query, held, envCount>>

\* line 301-302: register the sender under the id, return the receiver; a
\* sender already in the table under that id is displaced and dropped
SendMessageInsert(t) ==
    /\ pc[t] = "insert"
    /\ LockFree("acks")
    /\ LET h  == cur[t]
           na == AcksInsert(acks, calls[h].id, h)
       IN /\ acks' = na
          /\ calls' = [DropSenders(calls, acks, na) EXCEPT
                            ![h].returned = TRUE, ![h].retWhile = close_tx]
    /\ pc' = [pc EXCEPT ![t] = "idle"]
    /\ UNCHANGED <<bcasts, cur, nextId, connected, events, sent, replied,
                   queueVars, delivered, bgVars, close_tx, query, held,
                   envCount, opCount>>

\* --------------------------------------------- facade: broadcast_message
\* lines 307-315: build the payload once, lock the transport and collect
\* connected_peers(); the guard is a temporary of the for expression and
\* lives until the first loop ends
BroadcastSnapshot(t, data) ==
    /\ pc[t] = "idle"
    /\ CanAct(opCount, envCount)
    /\ LockFree("srv")
    /\ held' = [held EXCEPT ![t] = @ \cup {"srv"}]
    /\ \E id \in new_payload_id(nextId) :
          /\ bcasts' = Append(bcasts, [id |-> id,
                                       bytes |-> into_bytes(Payload(id, data)),
                                       peers |-> connected, todo |-> connected,
                                       late |-> {}])
          /\ nextId' = IF id = nextId THEN nextId + 1 ELSE nextId
    /\ cur' = [cur EXCEPT ![t] = Len(bcasts) + 1]
    /\ opCount' = opCount + 1
    /\ pc' = [pc EXCEPT ![t] = "snap"]
    /\ UNCHANGED <<acks, calls, connected, events, sent, replied, queueVars,
                   delivered, bgVars, close_tx, query, envCount>>

\* variant: the guard taken for the first loop outlives it
HeldAfterSnapshotKept(h) == h

\* line 316: the first loop ends and its guard is dropped
HeldAfterSnapshot(h) == h \ {"srv"}

\* lines 316-318: leave the first loop, enter the second
BroadcastCollected(t) ==
    /\ pc[t] = "snap"
    /\ held' = [held EXCEPT ![t] = HeldAfterSnapshot(@)]
    /\ pc' = [pc EXCEPT ![t] = IF bcasts[cur[t]].todo = {}
                               THEN "idle" ELSE "bcast"]
    /\ UNCHANGED <<acks, calls, bcasts, cur, nextId, connected, events, sent,
                   replied, queueVars, delivered, bgVars, close_tx, query,
                   envCount, opCount>>

\* variant: the second loop reads the connected set again
BroadcastTargetsLive(todo, connectedNow) == connectedNow

\* the peers the second loop still has to visit
BroadcastTargets(todo, connectedNow) == todo

\* lines 318-322: one locked raw send per iteration of the second loop
BroadcastSend(t) ==
    /\ pc[t] = "bcast"
    /\ LockFree("srv")
    /\ LET b == cur[t]
       IN \E p \in BroadcastTargets(bcasts[b].todo, connected) :
            /\ sent' = SendCustomMessage(sent, "broadcast", p, bcasts[b].bytes, b)
            /\ bcasts' = [bcasts EXCEPT ![b].todo = @ \ {p}]
            /\ pc' = [pc EXCEPT ![t] = IF bcasts[b].todo \ {p} = {}
                                       THEN "idle" ELSE "bcast"]
    /\ UNCHANGED <<acks, calls, cur, nextId, connected, events, replied,
                   queueVars, delivered, bgVars, close_tx, query, held,
                   envCount, opCount>>

\* ------------------------------------- facade: is_connected, identify
\* Libp2pService::is_open
is_open(peer) == peer \in connected

\* variant: an address that is no peer id counts as not connected
IsConnectedTotal(addr) ==
    IF is_open(convert_account_address_to_peer_id(addr))
    THEN "true" ELSE "false"

\* lines 278-280: lock, translate with unwrap, is_open
IsConnectedResult(addr) ==
    LET peer_id == convert_account_address_to_peer_id(addr)
    IN IF peer_id = IdentityError THEN "panic"
       ELSE IF is_open(peer_id) THEN "true" ELSE "false"

\* the guard is a temporary of the statement: it is dropped when the call
\* returns, and by the unwinding when the unwrap panics, which ends the
\* calling thread
IsConnected(t, addr) ==
    /\ pc[t] = "idle"
    /\ CanAct(opCount, envCount)
    /\ LockFree("srv")
    /\ query' = [n |-> query.n + 1, arg |-> addr,
                 result |-> IsConnectedResult(addr)]
    /\ pc' = [pc EXCEPT ![t] = IF IsConnectedResult(addr) = "panic"
                               THEN "panicked" ELSE "idle"]
    /\ opCount' = opCount + 1
    /\ UNCHANGED <<acks, calls, bcasts, cur, nextId, held, connected, events,
                   sent, replied, queueVars, delivered, bgVars, close_tx,
                   envCount>>

\* line 284: lock, peer_id(), translate
Identify(t) ==
    /\ pc[t] = "idle"
    /\ CanAct(opCount, envCount)
    /\ LockFree("srv")
    /\ query' = [n |-> query.n + 1, arg |-> "identify",
                 result |-> convert_peer_id_to_account_address(LocalPeer)]
    /\ opCount' = opCount + 1
    /\ UNCHANGED <<acks, calls, bcasts, pc, cur, nextId, held, connected,
                   events, sent, replied, queueVars, delivered, bgVars,
                   close_tx, envCount>>

\* the caller drops the future send_message returned without awaiting it
DropFuture(t) ==
    /\ pc[t] = "idle"
    /\ \E h \in DOMAIN calls :
          /\ calls[h].returned
          /\ ~calls[h].dropped
          /\ calls' = [calls EXCEPT ![h].dropped = TRUE]
    /\ UNCHANGED <<acks, bcasts, pc, cur, nextId, query, held, connected,
                   events, sent, replied, queueVars, delivered, bgVars,
                   close_tx, envCount, opCount>>

\* ------------------------------------------------ upper layer: net_tx
\* variant: the wake-up is lost
WakeLeaves(st) == st

\* the task is woken (line 201, task_notify.wake(); a request arriving on
\* _rx; close_rx completing) and select_all polls the poll loop again
WakeClears(st) == FALSE

\* variant: a request is queued although its receiver is gone
QueuesAlways(task) == TRUE

\* mpsc::UnboundedSender::unbounded_send queues while the receiver lives;
\* _rx lives in the drain loop's future
Queues(task) == task = "running"

\* the drain loop waits on _rx in the same task as the poll loop, so a new
\* request wakes the task and select_all polls the transport again; with
\* the future gone the send returns Err and nothing is queued
Enqueue(addr, data) ==
    /\ CanAct(opCount, envCount)
    /\ out_rx' = IF Queues(pumpTask)
                 THEN Append(out_rx, NetworkMessage(addr, data)) ELSE out_rx
    /\ stalled' = IF Queues(pumpTask) THEN WakeClears(stalled) ELSE stalled
    /\ opCount' = opCount + 1
    /\ UNCHANGED <<acks, callerVars, connected, events, sent, replied, net_rx,
                   event_rx, delivered, pollTask, pumpTask, bgExit, errAt,
                   handVars, close_tx, envCount>>

\* --------------------------------------------------- transport / remote
EnvFrame == <<acks, calls, pc, cur, nextId, sent, replied, queueVars,
              delivered, bgVars, close_tx, query, held, opCount>>

\* the transport's state is read and changed under the transport lock
\* the transport opens a connection and reports it
EnvConnect(p) ==
    /\ CanAct(opCount, envCount)
    /\ LockFree("srv")
    /\ p \notin connected
    /\ connected' = connected \cup {p}
    /\ events' = Append(events, CustomProtocolOpen(p))
    /\ bcasts' = [b \in DOMAIN bcasts |->
                    IF bcasts[b].todo # {}
                    THEN [bcasts[b] EXCEPT !.late = @ \cup {p}] ELSE bcasts[b]]
    /\ envCount' = envCount + 1
    /\ UNCHANGED EnvFrame

\* the transport loses a connection and reports it
EnvDisconnect(p) ==
    /\ CanAct(opCount, envCount)
    /\ LockFree("srv")
    /\ p \in connected
    /\ connected' = connected \ {p}
    /\ events' = Append(events, CustomProtocolClosed(p))
    /\ envCount' = envCount + 1
    /\ UNCHANGED <<EnvFrame, bcasts>>

EnvInject(ev) ==
    /\ CanAct(opCount, envCount)
    /\ LockFree("srv")
    /\ events' = Append(events, ev)
    /\ envCount' = envCount + 1
    /\ UNCHANGED <<EnvFrame, bcasts, connected>>

\* a connected peer sends a Payload of its own
EnvPayload(p, m) ==
    /\ p \in connected
    /\ EnvInject(CustomMessage(p, into_bytes(m), "env"))

\* a connected peer sends an ACK for an id this node has handed out before
\* (a duplicate, a late one, or one nobody waits for)
EnvAck(p, id) ==
    /\ p \in connected
    /\ id < nextId
    /\ EnvInject(CustomMessage(p, into_bytes(ACK(id)), "env"))

\* a connected peer sends bytes that are no Message
EnvGarbage(p) ==
    /\ p \in connected
    /\ EnvInject(CustomMessage(p, Garbage, "env"))

\* the transport reports congestion of its outbound queue
EnvClogged ==
    /\ CanAct(opCount, envCount)
    /\ EnvInject(Clogged)

\* the remote node runs the same dispatcher: a Payload that asks for an
\* acknowledgment comes back as an ACK event from that peer
RemoteReceive(o, k) ==
    /\ k \in 1..Len(sent[o])
    /\ <<o, k>> \notin replied
    /\ LockFree("srv")
    /\ sent[o][k].open
    /\ sent[o][k].peer \in connected
    /\ LET m == from_bytes(sent[o][k].bytes)
       IN /\ m.kind = "Payload"
          /\ NeedsAck(m.id)
          /\ events' = Append(events, CustomMessage(sent[o][k].peer,
                                                    into_bytes(ACK(m.id)), o))
    /\ replied' = replied \cup {<<o, k>>}
    /\ UNCHANGED <<acks, callerVars, connected, sent, queueVars, delivered,
                   bgVars, close_tx, envCount, opCount>>

\* lines 96-99: Libp2pService::poll returns Ready(Err): the closure logs and
\* returns Pending without waking itself; whether the transport kept a
\* waker for the task during that poll is the transport's business
\* a poll that returns Ready owes the task no wake-up
TransportKeepsWaker == BOOLEAN

PollError ==
    /\ pollTask = "running"
    /\ bgpc = "poll"
    /\ ~stalled
    /\ CanAct(opCount, envCount)
    /\ LockFree("srv")
    /\ \E kept \in TransportKeepsWaker : stalled' = ~kept
    /\ errAt' = Len(delivered) + Len(events)
    /\ envCount' = envCount + 1
    /\ UNCHANGED <<acks, callerVars, connected, events, sent, replied,
                   queueVars, delivered, pollTask, pumpTask, bgExit, handVars,
                   close_tx, opCount>>

\* ------------------------------------------- background: poll + dispatch
\* a panic (unwrap on Err) unwinds the "network" thread: the whole future,
\* poll loop and drain loop, is gone
Panic ==
    /\ pollTask' = ExitedTasks.poll
    /\ pumpTask' = ExitedTasks.pump
    /\ bgExit' = "panic"
    /\ bgpc' = "gone"
    /\ event' = NoEvent
    /\ message' = NoMessage
    /\ UNCHANGED <<stalled, errAt>>

\* lines 92-102: the poll closure locks the transport, polls it and returns
\* the event; its guard is dropped when the closure returns
PollNext ==
    /\ pollTask = "running"
    /\ bgpc = "poll"
    /\ ~stalled
    /\ LockFree("srv")
    /\ events # <<>>
    /\ event' = Head(events)
    /\ events' = Tail(events)
    /\ bgpc' = "dispatch"
    /\ UNCHANGED <<acks, callerVars, connected, sent, replied, queueVars,
                   delivered, pollTask, pumpTask, bgExit, stalled, errAt,
                   message, close_tx, envCount, opCount>>

\* lines 103 and 130-191: for_each hands the event to handle_event, which
\* runs up to the raw send of the ACK (the ACK arm waits for the table lock)
HandleEvent ==
    /\ pollTask = "running"
    /\ bgpc = "dispatch"
    /\ LET m     == from_bytes(event.message)
           addr  == convert_peer_id_to_account_address(event.peer_id)
       IN /\ delivered' = Append(delivered, event)
          /\ CASE event.type = "CustomMessage" /\ m.kind = "DecodeError" ->
                    /\ Panic
                    /\ UNCHANGED <<acks, calls, net_rx, event_rx>>
               [] event.type = "CustomMessage" /\ m.kind = "Payload" ->
                    IF addr = IdentityError
                    THEN /\ Panic
                         /\ UNCHANGED <<acks, calls, net_rx, event_rx>>
                    ELSE /\ net_rx' = InboundPush(net_rx,
                                                NetworkMessage(addr, m.data))
                         /\ bgpc' = IF NeedsAck(m.id) THEN "ack" ELSE "poll"
                         /\ event' = IF NeedsAck(m.id) THEN event ELSE NoEvent
                         /\ UNCHANGED <<acks, calls, event_rx, pollTask,
                                        pumpTask, bgExit, stalled, errAt,
                                        message>>
               [] event.type = "CustomMessage" /\ m.kind = "ACK" ->
                    /\ LockFree("acks")
                    /\ IF m.id \in DOMAIN acks
                       THEN LET h == acks[m.id]
                            IN /\ acks' = AcksRemove(acks, m.id)
                               /\ calls' = [calls EXCEPT ![h].st = "ok",
                                                         ![h].fired = @ + 1]
                       ELSE UNCHANGED <<acks, calls>>
                    /\ bgpc' = "poll"
                    /\ event' = NoEvent
                    /\ UNCHANGED <<net_rx, event_rx, pollTask, pumpTask,
                                   bgExit, stalled, errAt, message>>
               [] event.type \in {"CustomProtocolOpen", "CustomProtocolClosed"} ->
                    IF addr = IdentityError
                    THEN /\ Panic
                         /\ UNCHANGED <<acks, calls, net_rx, event_rx>>
                    ELSE /\ event_rx' = Append(event_rx,
                                               PeerEventOf(event.type, addr))
                         /\ bgpc' = "poll"
                         /\ event' = NoEvent
                         /\ UNCHANGED <<acks, calls, net_rx, pollTask,
                                        pumpTask, bgExit, stalled, errAt,
                                        message>>
               [] event.type = "Clogged" ->
                    /\ bgpc' = "poll"
                    /\ event' = NoEvent
                    /\ UNCHANGED <<acks, calls, net_rx, event_rx, pollTask,
                                   pumpTask, bgExit, stalled, errAt, message>>
    /\ UNCHANGED <<bcasts, pc, cur, nextId, connected, events, sent, replied,
                   out_rx, close_tx, query, held, envCount, opCount>>

\* lines 152-154: lock the transport again and send the ACK to the sender
SendAck ==
    /\ pollTask = "running"
    /\ bgpc = "ack"
    /\ LockFree("srv")
    /\ sent' = SendCustomMessage(sent, "ack", event.peer_id,
                                 into_bytes(ACK(from_bytes(event.message).id)),
                                 0)
    /\ bgpc' = "poll"
    /\ event' = NoEvent
    /\ UNCHANGED <<acks, callerVars, connected, events, replied, queueVars,
                   delivered, pollTask, pumpTask, bgExit, stalled, errAt,
                   message, close_tx, envCount, opCount>>

\* ------------------------------------------------ background: drain loop
\* variant: the raw send is skipped when the destination is not open
PumpSendsToOpenOnly(open) == open

\* lines 198-207: the raw send comes first and is unconditional; is_open is
\* only consulted afterwards, for the log
PumpSendsTo(open) == TRUE

\* lines 110 and 197: take one request off the queue and translate its
\* address, before any lock is asked for
TakeMessage ==
    /\ pumpTask = "running"
    /\ bgpc = "poll"
    /\ out_rx # <<>>
    /\ out_rx' = Tail(out_rx)
    /\ IF convert_account_address_to_peer_id(Head(out_rx).peer_id)
             = IdentityError
       THEN Panic
       ELSE /\ message' = Head(out_rx)
            /\ bgpc' = "send"
            /\ UNCHANGED <<pollTask, pumpTask, bgExit, stalled, errAt, event>>
    /\ UNCHANGED <<acks, callerVars, connected, events, sent, replied, net_rx,
                   event_rx, delivered, close_tx, envCount, opCount>>

\* lines 198-201: lock the transport, raw send, unlock, wake the task; the
\* function has still to lock the transport a second time
SendNetworkMessage ==
    /\ pumpTask = "running"
    /\ bgpc = "send"
    /\ LockFree("srv")
    /\ LET peer_id == convert_account_address_to_peer_id(message.peer_id)
       IN sent' = IF PumpSendsTo(peer_id \in connected)
                  THEN SendCustomMessage(sent, "pump", peer_id,
                           into_bytes(new_message(message.data)), 0)
                  ELSE sent
    /\ stalled' = WakeClears(stalled)
    /\ bgpc' = "isopen"
    /\ UNCHANGED <<acks, callerVars, connected, events, replied, queueVars,
                   delivered, pollTask, pumpTask, bgExit, errAt, event,
                   message, close_tx, envCount, opCount>>

\* lines 202-209: lock the transport again for is_open; a destination that
\* is not open is logged under its account address (line 205, unwrap); the
\* function returns Ok and the drain loop is free to take the next request
SendNetworkMessageIsOpen ==
    /\ pumpTask = "running"
    /\ bgpc = "isopen"
    /\ LockFree("srv")
    /\ LET peer_id == convert_account_address_to_peer_id(message.peer_id)
       IN IF ~is_open(peer_id)
             /\ convert_peer_id_to_account_address(peer_id) = IdentityError
          THEN Panic
          ELSE /\ bgpc' = "poll"
               /\ message' = NoMessage
               /\ UNCHANGED <<pollTask, pumpTask, bgExit, stalled, errAt,
                              event>>
    /\ UNCHANGED <<acks, callerVars, connected, events, sent, replied,
                   queueVars, delivered, close_tx, envCount, opCount>>

\* ---------------------------------------------------------------- shutdown
\* the owner of the oneshot sender returned by build_network_service fires
\* it; close_rx is polled by the task of the poll loop, which is woken
Shutdown ==
    /\ close_tx = "armed"
    /\ close_tx' = "fired"
    /\ stalled' = WakeClears(stalled)
    /\ UNCHANGED <<acks, callerVars, connected, events, sent, replied,
                   queueVars, delivered, pollTask, pumpTask, bgExit, errAt,
                   handVars, envCount, opCount>>

\* the owner drops the sender without firing it, which wakes the task too
DropCloseTx ==
    /\ close_tx = "armed"
    /\ close_tx' = "dropped"
    /\ stalled' = WakeClears(stalled)
    /\ UNCHANGED <<acks, callerVars, connected, events, sent, replied,
                   queueVars, delivered, pollTask, pumpTask, bgExit, errAt,
                   handVars, envCount, opCount>>

\* variant: only a fired signal completes the receiver
CloseRxCompletedFiredOnly(c) == c = "fired"

\* line 224: close_rx is one of the futures of select_all; a oneshot
\* receiver completes with Ok when the sender fires and with Err(Canceled)
\* when the sender is dropped
CloseRxCompleted(c) == c \in {"fired", "dropped"}

\* lines 224-241: close_rx completes, select_all completes, block_on returns
BgExit ==
    /\ CloseRxCompleted(close_tx)
    /\ bgExit = "none"
    /\ bgpc = "poll"
    /\ bgpc' = "gone"
    /\ pollTask' = ExitedTasks.poll
    /\ pumpTask' = ExitedTasks.pump
    /\ bgExit' = "shutdown"
    /\ UNCHANGED <<acks, callerVars, connected, events, sent, replied,
                   queueVars, delivered, close_tx, stalled, errAt, event,
                   message, envCount, opCount>>

\* ------------------------------------------------------------------- specs
\* what a peer sends unasked: a fire-and-forget payload and one that asks
\* for an ACK
EnvPayloads == {Payload(0, "d1"), Payload(7, "d2")}
\* ids of unsolicited ACKs: injecting one is an act of its own, so at most
\* MaxActs - 1 calls of send_message stand beside it and a larger id is as
\* unknown to the table as any id not yet given out
AckIds      == 1..(MaxActs - 1)
SentRange   == 1..(MaxActs * Cardinality(AllPeers))

\* The inputs of a step that never looks at them are not varied: a request
\* to an address without peer id and a payload from a peer without address
\* panic before their data is read (lines 197, 145), the sender of an ACK
\* is only logged (line 163), and bytes that do not decode panic whoever
\* sent them (line 140).
Next ==
    \/ \E t \in Callers, a \in AllAddrs, d \in OwnDatas : SendMessageSend(t, a, d)
    \/ \E t \in Callers : SendMessageInsert(t)
    \/ \E t \in Callers, d \in OwnDatas : BroadcastSnapshot(t, d)
    \/ \E t \in Callers : BroadcastCollected(t)
    \/ \E t \in Callers : BroadcastSend(t)
    \/ \E t \in Callers, a \in AllAddrs : IsConnected(t, a)
    \/ \E t \in Callers : Identify(t)
    \/ \E t \in Callers : DropFuture(t)
    \/ \E a \in GoodAddrs, d \in OutDatas : Enqueue(a, d)
    \/ \E d \in OwnDatas : Enqueue(BadAddr, d)
    \/ \E p \in AllPeers : EnvConnect(p)
    \/ \E p \in AllPeers : EnvDisconnect(p)
    \/ \E p \in GoodPeers, m \in EnvPayloads : EnvPayload(p, m)
    \/ EnvPayload(BadPeer, Payload(0, "d1"))
    \/ \E p \in GoodPeers, i \in AckIds : EnvAck(p, i)
    \/ \E p \in GoodPeers : EnvGarbage(p)
    \/ EnvClogged
    \/ \E o \in Origins, k \in SentRange : RemoteReceive(o, k)
    \/ PollError
    \/ PollNext
    \/ HandleEvent
    \/ SendAck
    \/ TakeMessage
    \/ SendNetworkMessage
    \/ SendNetworkMessageIsOpen
    \/ Shutdown
    \/ DropCloseTx
    \/ BgExit

Spec == Init /\ [][Next]_vars

\* the next step of the network thread
BgStep ==
    \/ PollNext
    \/ HandleEvent
    \/ SendAck
    \/ TakeMessage
    \/ SendNetworkMessage
    \/ SendNetworkMessageIsOpen
    \/ BgExit

\* the network thread runs on whenever it has a step to take: a ready
\* event, a queued request and a completed shutdown receiver are each acted
\* upon; a caller inside the first loop of broadcast_message runs on to its
\* end
FairSpec ==
    /\ Spec
    /\ WF_vars(BgStep)
    /\ \A t \in Callers : WF_vars(BroadcastCollected(t))

\* ======================================================================
\* Properties
\* ======================================================================
IsPrefix(s, t) == Len(s) <= Len(t) /\ \A k \in DOMAIN s : t[k] = s[k]

IsAck(e, id) == e.type = "CustomMessage" /\ from_bytes(e.message) = ACK(id)

\* positions of the dispatch history at which an ACK carrying id was handled
AcksDispatched(id) == {k \in DOMAIN delivered : IsAck(delivered[k], id)}

\* the step is handle_event run on the event the poll loop has in hand
Dispatching ==
    /\ bgpc = "dispatch"
    /\ delivered' = Append(delivered, event)

BgStopped == pollTask = "stopped" \/ pumpTask = "stopped"

\* positions at which the peer's own echo of a send_message Payload carrying
\* id was handled
EchoesDispatched(id) ==
    {k \in AcksDispatched(id) : delivered[k].cause = "send_message"}

\* ---------------------------------------------------------------- C1
\* C1 (as stated): a returned send_message future is resolved Ok only if the
\* dispatcher has processed an ACK carrying its correlation id, and it is
\* resolved Ok once the peer's ACK for it has been dispatched.
C1_Claim ==
    \A h \in DOMAIN calls :
        calls[h].returned =>
            /\ calls[h].st = "ok" => AcksDispatched(calls[h].id) # {}
            /\ EchoesDispatched(calls[h].id) # {} => calls[h].st = "ok"

\* ---------------------------------------------------------------- C2
\* C2 (as stated): the id is registered before the Payload is handed to the
\* transport, so the peer's ACK for a sent Payload, whenever it is
\* dispatched, finds the entry (or finds the call already resolved) and is
\* never treated as an unknown id.
C2_Step ==
    Dispatching =>
        LET e == event
            m == from_bytes(e.message)
        IN (e.type = "CustomMessage" /\ m.kind = "ACK"
                /\ e.cause = "send_message") =>
             \/ m.id \in DOMAIN acks
             \/ \E h \in DOMAIN calls : calls[h].id = m.id /\ calls[h].st = "ok"

C2_Claim == [][C2_Step]_vars

\* ---------------------------------------------------------------- C3
\* C3: dispatching an ACK whose id is in the table fires that entry's handle,
\* for the first and only time, and removes the entry; dispatching an ACK
\* whose id is not in the table changes neither the table nor any handle and
\* leaves the dispatcher running; no handle ever fires twice.
C3_Step ==
    Dispatching =>
        LET e == event
            m == from_bytes(e.message)
        IN (e.type = "CustomMessage" /\ m.kind = "ACK") =>
             /\ IF m.id \in DOMAIN acks
                THEN LET h == acks[m.id]
                     IN /\ calls[h].fired = 0
                        /\ calls'[h].fired = 1
                        /\ calls'[h].st = "ok"
                        /\ m.id \notin DOMAIN acks'
                        /\ \A g \in DOMAIN calls : g # h => calls'[g] = calls[g]
                ELSE /\ acks' = acks
                     /\ calls' = calls
                     /\ pollTask' = pollTask
                     /\ pumpTask' = pumpTask
             /\ \A g \in DOMAIN calls' : calls'[g].fired <= 1

C3_FiresOnce == [][C3_Step]_vars

\* a handle has fired and a second ACK with its id, an id no other call was
\* given, has been dispatched
C3_Witness ==
    \E h \in DOMAIN calls :
        /\ calls[h].fired = 1
        /\ Cardinality(AcksDispatched(calls[h].id)) >= 2
        /\ \A g \in DOMAIN calls : g # h => calls[g].id # calls[h].id

C5_Step ==
    /\ Dispatching =>
        LET e    == event
            m    == from_bytes(e.message)
            addr == convert_peer_id_to_account_address(e.peer_id)
        IN (e.type = "CustomMessage" /\ m.kind = "Payload"
                /\ addr # IdentityError) =>
             /\ net_rx' = Append(net_rx, [peer_id |-> addr, data |-> m.data])
             /\ sent' = sent
             /\ bgpc' = IF m.id = 0 THEN "poll" ELSE "ack"
             /\ event' = IF m.id = 0 THEN NoEvent ELSE e
    /\ bgpc = "ack" =>
          /\ IsPrefix(events, events')
          /\ IsPrefix(out_rx, out_rx')
          /\ \/ bgpc' = "ack" /\ event' = event /\ sent'["ack"] = sent["ack"]
             \/ /\ bgpc' = "poll"
                /\ sent'["ack"] =
                      Append(sent["ack"],
                             [peer |-> event.peer_id,
                              bytes |-> <<"A", event.message[2]>>,
                              ref |-> 0, open |-> event.peer_id \in connected])
    /\ bgpc # "ack" => sent'["ack"] = sent["ack"]

C5_PayloadDispatch == [][C5_Step]_vars

\* one Payload with id 0 and one with another id have been dispatched
C5_Witness ==
    /\ Len(net_rx) = 2
    /\ Len(sent["ack"]) = 1
    /\ bgExit = "none"

\* ---------------------------------------------------------------- C6
BroadcastRunning(b) ==
    \E t \in Callers : pc[t] \in {"snap", "bcast"} /\ cur[t] = b

\* raw sends of broadcast call b addressed to peer p
BroadcastSends(b, p) ==
    {k \in DOMAIN sent["broadcast"] :
        sent["broadcast"][k].ref = b /\ sent["broadcast"][k].peer = p}

\* C6: a broadcast never sends to a peer outside the snapshot it took, never
\* sends twice to a peer inside it, and when the call has returned it has
\* sent its payload exactly once to every peer of the snapshot.
C6_OnePerSnapshotPeer ==
    \A b \in DOMAIN bcasts : \A p \in AllPeers :
        LET n == Cardinality(BroadcastSends(b, p))
        IN /\ p \notin bcasts[b].peers => n = 0
           /\ p \in bcasts[b].peers => n <= 1
           /\ (p \in bcasts[b].peers /\ ~BroadcastRunning(b)) => n = 1
           /\ \A k \in BroadcastSends(b, p) :
                 sent["broadcast"][k].bytes = bcasts[b].bytes

\* a broadcast has returned having sent to its snapshot, and a peer that was
\* not in the snapshot connected while the call was iterating
C6_Witness ==
    \E b \in DOMAIN bcasts :
        /\ ~BroadcastRunning(b)
        /\ bcasts[b].peers # {}
        /\ bcasts[b].late \ bcasts[b].peers # {}
        /\ \A p \in bcasts[b].peers : Cardinality(BroadcastSends(b, p)) = 1

\* ---------------------------------------------------------------- C7
\* C7 (as stated): every broadcast Payload carries id 0, and no ACK caused by
\* a broadcast is ever queued for, or handled by, the broadcaster's
\* dispatcher.
C7_Claim ==
    /\ \A k \in DOMAIN sent["broadcast"] :
          from_bytes(sent["broadcast"][k].bytes).id = 0
    /\ \A k \in DOMAIN events : events[k].cause # "broadcast"
    /\ \A k \in DOMAIN delivered : delivered[k].cause # "broadcast"

\* ---------------------------------------------------------------- C8
\* C8 (as stated): a send_message future returned before the shutdown signal
\* fired and still pending when the background context has shut down
\* eventually resolves to Err(Canceled).
C8_Claim ==
    \A h \in 1..MaxActs :
        (/\ bgExit = "shutdown"
         /\ close_tx = "fired"
         /\ h \in DOMAIN calls
         /\ calls[h].retWhile = "armed"
         /\ calls[h].st = "pending")
            ~> (h \in DOMAIN calls /\ calls[h].st = "canceled")

\* ---------------------------------------------------------------- C9
\* C9: the two background tasks stop in the same step, a fired shutdown
\* signal leads to that step, and from then on no event is dispatched,
\* nothing is pushed on the inbound or PeerEvent queue, no outbound request is
\* taken from its queue and the background context issues no raw send.
C9_Step ==
    BgStopped =>
        /\ delivered' = delivered
        /\ net_rx' = net_rx
        /\ event_rx' = event_rx
        /\ IsPrefix(events, events')
        /\ IsPrefix(out_rx, out_rx')
        /\ sent'["ack"] = sent["ack"]
        /\ sent'["pump"] = sent["pump"]

C9_StopTogether ==
    /\ [](pollTask = "stopped" <=> pumpTask = "stopped")
    /\ [][C9_Step]_vars
    /\ (close_tx = "fired") ~> (pollTask = "stopped" /\ pumpTask = "stopped")

\* the background context has shut down with an event and an outbound
\* request still waiting
C9_Witness ==
    /\ bgExit = "shutdown"
    /\ events # <<>>
    /\ out_rx # <<>>

\* ---------------------------------------------------------------- C10
IsConnNote(e) ==
    /\ e.type \in {"CustomProtocolOpen", "CustomProtocolClosed"}
    /\ convert_peer_id_to_account_address(e.peer_id) # IdentityError

\* C10: the PeerEvent queue holds, in dispatch order, one Open(address) for
\* each dispatched CustomProtocolOpen and one Close(address) for each
\* dispatched CustomProtocolClosed of a peer that has an account address.
C10_PeerEventsInOrder ==
    LET notes == SelectSeq(delivered, IsConnNote)
    IN /\ Len(event_rx) = Len(notes)
       /\ \A k \in DOMAIN notes :
             event_rx[k] =
                [kind |-> IF notes[k].type = "CustomProtocolOpen"
                          THEN "Open" ELSE "Close",
                 addr |-> convert_peer_id_to_account_address(notes[k].peer_id)]

\* an open, a close and a second open of the same peer have been reported
C10_Witness ==
    /\ Len(event_rx) = 3
    /\ event_rx[1].kind = "Open"
    /\ event_rx[2].kind = "Close"
    /\ event_rx[3].kind = "Open"

\* ---------------------------------------------------------------- C11
IsInboundPayload(e) ==
    /\ e.type = "CustomMessage"
    /\ from_bytes(e.message).kind = "Payload"
    /\ convert_peer_id_to_account_address(e.peer_id) # IdentityError

\* everything the transport has made ready so far, in the order it did
TransportOrder ==
    delivered \o (IF bgpc = "dispatch" THEN <<event>> ELSE <<>>) \o events

\* C11: events are dispatched in the order the transport made them ready,
\* and the inbound queue holds, in that order, exactly one NetworkMessage
\* {address of the peer, data} for each dispatched Payload event of a peer
\* that has an account address.
C11_Step == IsPrefix(TransportOrder, TransportOrder')

C11_InboundInOrder ==
    /\ [][C11_Step]_vars
    /\ [](LET pays == SelectSeq(delivered, IsInboundPayload)
          IN /\ Len(net_rx) = Len(pays)
             /\ \A k \in DOMAIN pays :
                   net_rx[k] =
                      [peer_id |-> convert_peer_id_to_account_address(
                                       pays[k].peer_id),
                       data |-> pays[k].message[3]])

\* two different Payloads have been dispatched after another event
C11_Witness ==
    /\ Len(delivered) = 3
    /\ Len(net_rx) = 2
    /\ net_rx[1].data # net_rx[2].data

\* ---------------------------------------------------------------- C12
\* the step takes the request at the head of the outbound queue
Draining == out_rx # <<>> /\ out_rx' = Tail(out_rx)

\* C12: the outbound queue only grows at its tail and shrinks at its head;
\* a request is taken from it only when none is in hand; each request taken,
\* its address being a peer id, is followed, before the next request or
\* event is taken, by exactly one raw send of Payload{0, data} to that peer,
\* whether or not the peer is open, the pump staying alive through the
\* look-up of the peer that follows the send; and the pump issues no raw
\* send otherwise.
C12_Step ==
    /\ \/ out_rx' = out_rx
       \/ Draining
       \/ \E a \in AllAddrs, d \in OutDatas :
             out_rx' = Append(out_rx, [peer_id |-> a, data |-> d])
    /\ Draining =>
          /\ bgpc = "poll"
          /\ convert_account_address_to_peer_id(Head(out_rx).peer_id)
                # IdentityError =>
                (bgpc' = "send" /\ message' = Head(out_rx))
    /\ bgpc = "send" =>
          /\ ~Draining
          /\ delivered' = delivered
          /\ \/ bgpc' = "send" /\ message' = message
                   /\ sent'["pump"] = sent["pump"]
             \/ /\ bgpc' = "isopen"
                /\ message' = message
                /\ pumpTask' = "running"
                /\ LET peer_id ==
                          convert_account_address_to_peer_id(message.peer_id)
                   IN sent'["pump"] =
                         Append(sent["pump"],
                                [peer |-> peer_id,
                                 bytes |-> <<"P", 0, message.data>>,
                                 ref |-> 0, open |-> peer_id \in connected])
    /\ bgpc = "isopen" =>
          /\ ~Draining
          /\ delivered' = delivered
          /\ \/ bgpc' = "isopen" /\ message' = message
             \/ bgpc' = "poll" /\ pumpTask' = "running"
    /\ bgpc # "send" => sent'["pump"] = sent["pump"]

C12_PumpInOrder == [][C12_Step]_vars

\* two different requests have been sent, the first to a peer that was not
\* open, and the pump is alive
C12_Witness ==
    /\ Len(sent["pump"]) = 2
    /\ ~sent["pump"][1].open
    /\ sent["pump"][1].bytes # sent["pump"][2].bytes
    /\ pumpTask = "running"

\* ---------------------------------------------------------------- C13
\* C13 (as stated): dispatching a CustomMessage whose bytes do not decode
\* leaves the Acknowledgment Table, the inbound queue and the PeerEvent queue
\* unchanged and leaves the dispatcher and the pump running.
C13_Step ==
    Dispatching =>
        LET e == event
        IN (e.type = "CustomMessage" /\ from_bytes(e.message) = DecodeError) =>
             /\ acks' = acks
             /\ net_rx' = net_rx
             /\ event_rx' = event_rx
             /\ pollTask' = "running"
             /\ pumpTask' = "running"
             /\ bgExit' = "none"

C13_Claim == [][C13_Step]_vars

\* ---------------------------------------------------------------- C14
\* C14 (as stated): is_connected(address) returns true exactly when the
\* address translates to a peer id the transport has open, and returns false
\* otherwise, including when the translation fails; the calling thread goes
\* on.
C14_Step ==
    (query'.n # query.n /\ query'.arg \in AllAddrs) =>
        LET peer_id == convert_account_address_to_peer_id(query'.arg)
        IN /\ query'.result =
                 IF peer_id # IdentityError /\ peer_id \in connected
                 THEN "true" ELSE "false"
           /\ pc' = pc

C14_Claim == [][C14_Step]_vars

\* ---------------------------------------------------------------- C15
\* the event needs the peer's account address and the peer id has none
UntranslatableEvent(e) ==
    /\ \/ e.type = "CustomMessage" /\ from_bytes(e.message).kind = "Payload"
       \/ e.type \in {"CustomProtocolOpen", "CustomProtocolClosed"}
    /\ convert_peer_id_to_account_address(e.peer_id) = IdentityError

\* C15 (as stated): when the dispatcher handles an event whose peer id has
\* no account address, or the pump takes a request whose address is no peer
\* id, nothing is pushed on the inbound or PeerEvent queue, no raw send is
\* issued, and the poll loop and the pump keep running.
C15_Step ==
    /\ (Dispatching /\ UntranslatableEvent(event)) =>
          /\ net_rx' = net_rx
          /\ event_rx' = event_rx
          /\ sent' = sent
          /\ pollTask' = "running"
          /\ pumpTask' = "running"
    /\ (Draining /\ convert_account_address_to_peer_id(Head(out_rx).peer_id)
                        = IdentityError) =>
          /\ sent' = sent
          /\ pollTask' = "running"
          /\ pumpTask' = "running"

C15_Claim == [][C15_Step]_vars

\* ---------------------------------------------------------------- C16
\* C16 (as stated): every event the transport makes ready after one of its
\* polls has failed is eventually dispatched, unless the background context
\* ends by shutdown or panic first.
C16_Claim ==
    \A n \in 1..MaxActs :
        (errAt >= 0 /\ n > errAt /\ Len(TransportOrder) >= n /\ bgExit = "none")
            ~> (Len(delivered) >= n \/ bgExit # "none")

\* ---------------------------------------------------------------- C17
\* C17 (as stated): send_message issues no raw send of its own; every raw
\* send of a Payload carrying the id of a send_message call is issued by the
\* outbound pump.
C17_Claim ==
    \A o \in Origins : \A k \in DOMAIN sent[o] :
        LET m == from_bytes(sent[o][k].bytes)
        IN (m.kind = "Payload" /\ \E h \in DOMAIN calls : calls[h].id = m.id)
              => o = "pump"

\* ---------------------------------------------------------------- C18
\* the locks the thread's next step acquires
Wants(th) ==
    IF th = "bg"
    THEN IF bgpc \in {"ack", "send", "isopen"} THEN {"srv"}
         ELSE IF bgpc = "dispatch" /\ event.type = "CustomMessage"
                    /\ from_bytes(event.message).kind = "ACK" THEN {"acks"}
         ELSE IF bgpc = "poll" /\ pollTask = "running" /\ ~stalled
              THEN {"srv"} ELSE {}
    ELSE IF pc[th] = "insert" THEN {"acks"}
         ELSE IF pc[th] = "bcast" THEN {"srv"}
         ELSE {}

\* the thread can take its next step
CanProceed(th) ==
    IF th = "bg"
    THEN ENABLED (PollNext \/ HandleEvent \/ SendAck \/ TakeMessage
                    \/ SendNetworkMessage \/ SendNetworkMessageIsOpen
                    \/ PollError)
    ELSE ENABLED (\/ SendMessageInsert(th)
                  \/ BroadcastCollected(th)
                  \/ BroadcastSend(th))

\* C18: no lock is held by two threads; no thread holds the transport lock
\* and the table lock together; no thread is about to acquire a lock it
\* holds; and whoever holds a lock can take its next step, so every lock a
\* thread waits for is released.
C18_LockDiscipline ==
    /\ \A l \in Locks : \A t1, t2 \in Threads :
          (l \in held[t1] /\ l \in held[t2]) => t1 = t2
    /\ \A th \in Threads :
          /\ ~({"srv", "acks"} \subseteq held[th])
          /\ Wants(th) \cap held[th] = {}
          /\ held[th] # {} => CanProceed(th)
          /\ (Wants(th) # {} /\ \A l \in Wants(th) : LockFree(l)
                /\ (th = "bg" => bgpc # "poll")) => CanProceed(th)

\* a broadcast holds the transport lock for its first loop while a
\* send_message entry is registered and the poll loop has an event to take
C18_Witness ==
    /\ \E t \in Callers : held[t] = {"srv"} /\ pc[t] = "snap"
    /\ DOMAIN acks # {}
    /\ events # <<>>
    /\ pollTask = "running"

\* ---------------------------------------------------------------- C19
\* C19: every step either leaves the Acknowledgment Table as it is, or is a
\* registration by send_message, which removes no entry, or is the dispatch
\* of an ACK event carrying the id of an entry, which removes that entry and
\* no other; so no other event, no drop of a future, no disconnection and no
\* shutdown or panic of the background context removes an entry.
C19_Step ==
    \/ acks' = acks
    \/ /\ \E t \in Callers : pc[t] = "insert" /\ pc'[t] = "idle"
       /\ DOMAIN acks \subseteq DOMAIN acks'
    \/ /\ Dispatching
       /\ \E id \in DOMAIN acks :
             /\ IsAck(event, id)
             /\ acks' = [i \in DOMAIN acks \ {id} |-> acks[i]]

C19_OnlyAckRemoves == [][C19_Step]_vars

\* one entry has been removed by its ACK while another, whose future the
\* caller has dropped, is still in the table after the background context
\* has shut down
C19_Witness ==
    /\ bgExit = "shutdown"
    /\ \E g, h \in DOMAIN calls :
          /\ calls[g].fired = 1
          /\ calls[g].id \notin DOMAIN acks
          /\ calls[h].dropped
          /\ calls[h].id \in DOMAIN acks

\* ---------------------------------------------------------------- C20
\* C20: the background context ends by way of the shutdown receiver only
\* once the sender has been fired or dropped; a dropped sender leads to the
\* poll loop and the pump being stopped, as a fired one does; and from then
\* on no event is dispatched, no request is taken and the background
\* context issues no raw send.
C20_Step ==
    (close_tx = "dropped" /\ BgStopped) =>
        /\ delivered' = delivered
        /\ IsPrefix(out_rx, out_rx')
        /\ sent'["ack"] = sent["ack"]
        /\ sent'["pump"] = sent["pump"]
        /\ pollTask' = "stopped"
        /\ pumpTask' = "stopped"

C20_DropEndsNetwork ==
    /\ [](bgExit = "shutdown" => close_tx \in {"fired", "dropped"})
    /\ [][C20_Step]_vars
    /\ (close_tx = "dropped") ~> (pollTask = "stopped" /\ pumpTask = "stopped")

\* the sender was dropped, never fired, and the background context has
\* ended leaving an event and an outbound request unhandled
C20_Witness ==
    /\ close_tx = "dropped"
    /\ bgExit = "shutdown"
    /\ events # <<>>
    /\ out_rx # <<>>
====
